---- MODULE Spec2Model ----
(***************************************************************************)
(* slack-archive: the incremental download of channel history, thread      *)
(* replies and user/bot profiles (src/src/download-messages.ts).           *)
(*                                                                         *)
(* A Slack timestamp "<seconds>.<fraction>" is the integer                 *)
(* seconds * TsUnit + fraction; parseInt(ts, 10) is ts \div TsUnit.        *)
(* A message is identified by its timestamp; its author and reply_count    *)
(* are fixed attributes of that timestamp.  A stored message is            *)
(* [ts, replies]; replies is the sequence of reply timestamps              *)
(* (message.replies, undefined read as the empty sequence: the code only   *)
(* reads it through `message.replies || []` and `message.replies && ...`). *)
(***************************************************************************)
EXTENDS Integers, Sequences, FiniteSets, TLC

\* ---- bounds of the model ------------------------------------------------
MaxTs == 3        \* message timestamps are 1..MaxTs
TsUnit == 2       \* sub-second positions per second
PageLimit == 2    \* messages per conversations.history page
MaxReplies == 2   \* replies the remote can hold for a thread
MaxProcs == 3     \* process runs of the downloader
DmMessages == 0   \* messages the direct conversation can hold
MESSAGE_CHUNK == 2  \* messages per rendered page (1000 in the source)
MaxBoundary == 5    \* largest boundary the locator is given

Channels == {"C1", "D1"}
Unidentified == "C?"   \* a channel object without id
AllChannels == Channels \cup {Unidentified}
Identifiers == {"U1", "B1"}
NoId == "none"
NoChannel == "none"
Ts == 1..MaxTs

VARIABLES
  history,      \* remote: channel -> set of message timestamps
  thread,       \* remote: number of replies the thread holds
  remoteUsers,  \* remote: identifiers users.info / bots.info resolve
  stored,       \* disk: channel -> message collection (first = index 1)
  usersDisk,    \* disk: persisted entity cache
  users,        \* memory: entity cache of the running process
  pc,           \* position of the running process
  procs,        \* process runs started so far
  done,         \* channels the caller's loop has passed in this run
  cur,          \* channel being downloaded
  oldest,       \* downloadMessages: the `oldest` request argument
  pages,        \* conversations.history pages not yet delivered
  result,       \* downloadMessages: result {messages, new}
  idx,          \* downloadExtras: index of the next message
  lookups,      \* identifier -> users.info/bots.info calls in this run
  calls,        \* remote calls issued by the last step
  response,     \* response of the last history / replies call
  resolved,     \* identifiers resolved in this run
  synced,       \* channel -> remote history at its last saved download
  archive,      \* disk: channel -> {messages, fullyDownloaded}
  renderUsers,  \* create-html: the `users` it loaded
  html,         \* channel -> pages written by this run
  searchPages,  \* channel -> boundaries recorded by this run
  indexPage,    \* channels listed on the index page written by this run
  ri,           \* createHtmlForChannels: position in the channel list
  boundaries,   \* locator: the boundaries recorded for a channel
  target,       \* locator: the timestamp looked up
  located,      \* locator: the page the lookup resolved to
  channels      \* the channels downloadChannels returned

vars == <<history, thread, remoteUsers, stored, usersDisk, users, pc, procs,
          done, cur, oldest, pages, result, idx, lookups, calls, response,
          resolved, synced, archive, renderUsers, html, searchPages,
          indexPage, ri, boundaries, target, located, channels>>

locatorVars == <<boundaries, target, located>>

renderVars == <<renderUsers, html, searchPages, indexPage, ri>>

remoteVars == <<history, thread, remoteUsers>>

NeverSynced == {0}
EmptyResult == [messages |-> <<>>, new |-> 0]
NoResponse == [status |-> "none", messages |-> <<>>]
NoData == [known |-> FALSE, messages |-> 0, fullyDownloaded |-> FALSE]
NoTs == 0   \* message.ts of a message without timestamp
\* the channels conversations.list delivers / getChannels() returns
ChannelList == <<"C1", Unidentified, "D1">>

\* !!channel.id
HasId(c) == c \in Channels

\* ---- message attributes -------------------------------------------------
\* message.user || message.bot_id
Author(ts) == IF ts % 3 = 0 THEN NoId ELSE IF ts % 3 = 1 THEN "U1" ELSE "B1"

\* item.user ? 'user' : 'bot'
IdentifierType(id) == IF id = "U1" THEN "user" ELSE "bot"

\* message.reply_count
ReplyCount(ts) == IF ts \in {NoTs, 1} THEN 2 ELSE 0

\* reply.user || reply.bot_id of the r-th reply of the thread
ReplyAuthor(r) == IF r % 2 = 1 THEN "B1" ELSE "U1"

IsThread(m) == ReplyCount(m.ts) > 0

IsIm(c) == c = "D1"

\* channel.user of a direct conversation
ImUser(c) == IF c = "D1" THEN "U1" ELSE NoId

\* ---- helpers ------------------------------------------------------------
Max(S) == CHOOSE x \in S : \A y \in S : y <= x
Min(S) == CHOOSE x \in S : \A y \in S : x <= y

RECURSIVE SortDesc(_)
SortDesc(S) == IF S = {} THEN <<>> ELSE <<Max(S)>> \o SortDesc(S \ {Max(S)})

RECURSIVE Chunk(_, _)
Chunk(s, n) ==
  IF Len(s) <= n THEN <<s>>
  ELSE <<SubSeq(s, 1, n)>> \o Chunk(SubSeq(s, n + 1, Len(s)), n)

Incoming(ts) == [ts |-> ts, replies |-> <<>>]

ToMessages(tss) == [i \in 1..Len(tss) |-> Incoming(tss[i])]

TsOf(msgs) == [i \in 1..Len(msgs) |-> msgs[i].ts]

\* parseInt(ts, 10)
ParseInt(ts) == ts \div TsUnit

\* ---- the remote ---------------------------------------------------------
\* conversations.history(channel, oldest): the messages newer than `oldest`
\* seconds, newest first, in pages of PageLimit; always at least one page.
HistoryPages(c, old) ==
  LET newer == IF HasId(c) THEN {t \in history[c] : t > old * TsUnit}
               ELSE {}
  IN  IF newer = {} THEN << <<>> >>
      ELSE Chunk(ToMessages(SortDesc(newer)), PageLimit)

\* conversations.replies(channel, ts, oldest): the replies newer than
\* `oldest`, oldest first (the parent, first in the response, left out here
\* and sliced off by the caller).
ThreadReplies(c, old) ==
  LET n == thread - old
  IN  IF n <= 0 THEN <<>> ELSE [i \in 1..n |-> old + i]

\* A message is posted to channel c; timestamps increase over the workspace.
RemotePost(c) ==
  /\ pc = "idle"
  /\ LET t == Cardinality(UNION {history[d] : d \in Channels}) + 1
     IN  /\ t \in Ts
         /\ IsIm(c) => Cardinality(history[c]) < DmMessages
         /\ history' = [history EXCEPT ![c] = @ \cup {t}]
  /\ calls' = <<>>
  /\ response' = NoResponse
  /\ UNCHANGED <<channels, locatorVars, renderVars, archive, thread, remoteUsers, stored, usersDisk, users, pc, procs,
                 done, cur, oldest, pages, result, idx, lookups, resolved,
                 synced>>

RemoteReply(c) ==
  /\ pc = "idle"
  /\ \E t \in history[c] : ReplyCount(t) > 0
  /\ thread < MaxReplies
  /\ thread' = thread + 1
  /\ calls' = <<>>
  /\ response' = NoResponse
  /\ UNCHANGED <<channels, locatorVars, renderVars, archive, history, remoteUsers, stored, usersDisk, users, pc, procs,
                 done, cur, oldest, pages, result, idx, lookups, resolved,
                 synced>>

\* The remote gains a record for an identifier it could not resolve.
RemoteUserAppears(id) ==
  /\ pc = "idle"
  /\ id \notin remoteUsers
  /\ remoteUsers' = remoteUsers \cup {id}
  /\ calls' = <<>>
  /\ response' = NoResponse
  /\ UNCHANGED <<channels, locatorVars, renderVars, archive, history, thread, stored, usersDisk, users, pc, procs, done,
                 cur, oldest, pages, result, idx, lookups, resolved, synced>>

\* ---- downloadUser -------------------------------------------------------
\* downloadUser storing an entry also when the remote has no record
DownloadUserStoresNull(identifier, us, lk) ==
  IF identifier = NoId
    THEN [users |-> us, lookups |-> lk, calls |-> <<>>, found |-> FALSE]
  ELSE IF identifier \in us
    THEN [users |-> us, lookups |-> lk, calls |-> <<>>, found |-> TRUE]
  ELSE [users |-> us \cup {identifier},
        lookups |-> [lk EXCEPT ![identifier] = @ + 1],
        calls |-> << IdentifierType(identifier) \o "s.info" >>,
        found |-> identifier \in remoteUsers]

\* downloadUser without `users[identifier] = user`
DownloadUserNoStore(identifier, us, lk) ==
  IF identifier = NoId
    THEN [users |-> us, lookups |-> lk, calls |-> <<>>, found |-> FALSE]
  ELSE IF identifier \in us
    THEN [users |-> us, lookups |-> lk, calls |-> <<>>, found |-> TRUE]
  ELSE [users |-> us, lookups |-> [lk EXCEPT ![identifier] = @ + 1],
        calls |-> << IdentifierType(identifier) \o "s.info" >>,
        found |-> FALSE]

\* Returns the cache, the lookup counters and the calls after resolving
\* `identifier`; found is the returned record (as presence).
DownloadUser(identifier, us, lk) ==
  IF identifier = NoId
    THEN [users |-> us, lookups |-> lk, calls |-> <<>>, found |-> FALSE]
  ELSE IF identifier \in us
    THEN [users |-> us, lookups |-> lk, calls |-> <<>>, found |-> TRUE]
  ELSE LET lk2 == [lk EXCEPT ![identifier] = @ + 1]
           call == << IdentifierType(identifier) \o "s.info" >>
       IN  IF identifier \in remoteUsers
             THEN [users |-> us \cup {identifier}, lookups |-> lk2,
                   calls |-> call, found |-> TRUE]
             ELSE [users |-> us, lookups |-> lk2, calls |-> call,
                   found |-> FALSE]

\* ---- downloadChannels ---------------------------------------------------
\* The channel list is fixed; for a direct conversation the counterpart is
\* resolved through downloadUser.
RECURSIVE ResolveIms(_, _, _, _)
ResolveIms(cs, us, lk, cl) ==
  IF cs = {} THEN [users |-> us, lookups |-> lk, calls |-> cl]
  ELSE LET c == CHOOSE x \in cs : TRUE
           r == IF IsIm(c) THEN DownloadUser(ImUser(c), us, lk)
                ELSE [users |-> us, lookups |-> lk, calls |-> <<>>]
       IN  ResolveIms(cs \ {c}, r.users, r.lookups, cl \o r.calls)

ImUsers == {ImUser(c) : c \in {d \in Channels : IsIm(d)}} \ {NoId}

\* (page.channels || []).filter((c) => !!c.id)
PageChannels(list) == SelectSeq(list, HasId)

DownloadChannels ==
  /\ pc = "start"
  /\ LET pageChannels == PageChannels(ChannelList)
         r == ResolveIms({pageChannels[i] : i \in 1..Len(pageChannels)},
                         users, lookups, <<>>)
     IN  /\ channels' = pageChannels
         /\ users' = r.users
         /\ lookups' = r.lookups
         /\ calls' = r.calls
  /\ resolved' = resolved \cup ImUsers
  /\ response' = NoResponse
  /\ pc' = "idle"
  /\ UNCHANGED <<locatorVars, renderVars, archive, remoteVars, stored, usersDisk, procs, done, cur, oldest,
                 pages, result, idx, synced>>

\* ---- downloadMessages ---------------------------------------------------
\* getMessages(channel.id): the persisted collection
GetMessages(c) == IF HasId(c) THEN stored[c] ELSE <<>>

\* the cursor taken from the last message of the collection
OldestCursorLast(msgs) ==
  IF Len(msgs) > 0 THEN ParseInt(msgs[Len(msgs)].ts) ELSE 0

\* result.messages.length > 0 ? parseInt(result.messages[0].ts || "0", 10) : 0
OldestCursor(msgs) == IF Len(msgs) > 0 THEN ParseInt(msgs[1].ts) ELSE 0

\* merge by assignment: the page replaces the collection
MergePageReplace(res, page) ==
  [messages |-> page, new |-> res.new + Len(page)]

\* result.messages.unshift(...page.messages); result.new += page.length
MergePage(res, page) ==
  [messages |-> page \o res.messages, new |-> res.new + Len(page)]

\* the rejection swallowed: the pages merged so far are returned
PageFailureKeeps(res) == [pc |-> "extras", result |-> res]

\* A rejected page fetch leaves the `for await` loop by the exception:
\* nothing is returned.
PageFailure(res) == [pc |-> "aborted", result |-> EmptyResult]

\* if (!channel.id) { console.warn(...); return result; }
ChannelWithoutId(c) == ~HasId(c)

\* The caller passes channel c to downloadMessages. A channel without id is
\* answered at once with the empty result; otherwise the persisted
\* collection is loaded and the history requested.
DownloadMessagesStart(c) ==
  /\ pc = "idle"
  /\ c \notin done
  /\ cur' = c
  /\ done' = done \cup {c}
  /\ calls' = <<>>
  /\ response' = NoResponse
  /\ IF ChannelWithoutId(c)
       THEN /\ result' = EmptyResult
            /\ oldest' = 0
            /\ pages' = <<>>
            /\ pc' = "extras"
       ELSE /\ result' = [messages |-> GetMessages(c), new |-> 0]
            /\ oldest' = OldestCursor(GetMessages(c))
            /\ pages' = HistoryPages(c, OldestCursor(GetMessages(c)))
            /\ pc' = "history"
  /\ UNCHANGED <<channels, locatorVars, renderVars, archive, remoteVars, stored, usersDisk, users, procs, idx, lookups,
                 resolved, synced>>

FetchPage ==
  /\ pc = "history"
  /\ result' = MergePage(result, Head(pages))
  /\ pages' = Tail(pages)
  /\ calls' = <<"conversations.history">>
  /\ response' = [status |-> "ok", messages |-> TsOf(Head(pages))]
  /\ IF Len(pages) = 1
       THEN pc' = "extras" /\ idx' = 1
       ELSE pc' = "history" /\ idx' = idx
  /\ UNCHANGED <<channels, locatorVars, renderVars, archive, remoteVars, stored, usersDisk, users, procs, done, cur,
                 oldest, lookups, resolved, synced>>

FetchPageFail ==
  /\ pc = "history"
  /\ pc' = PageFailure(result).pc
  /\ result' = PageFailure(result).result
  /\ idx' = 1
  /\ calls' = <<"conversations.history">>
  /\ response' = [status |-> "error", messages |-> <<>>]
  /\ UNCHANGED <<channels, locatorVars, renderVars, archive, remoteVars, stored, usersDisk, users, procs, done, cur,
                 oldest, pages, lookups, resolved, synced>>

\* ---- downloadReplies ----------------------------------------------------
\* the completeness test with > for >=
AlreadyCompleteStrict(m) == Len(m.replies) > ReplyCount(m.ts)

\* message.replies && message.replies.length >= message.reply_count
AlreadyComplete(m) == Len(m.replies) >= ReplyCount(m.ts)

\* replies.length > 0 ? replies[replies.length - 1].ts : "0"
RepliesCursor(m) == IF Len(m.replies) > 0 THEN m.replies[Len(m.replies)] ELSE 0

ReplyOutcomes == {"ok", "nomessages", "error"}

\* The response of conversations.replies for message m under `outcome`.
RepliesResponse(c, m, outcome) ==
  IF outcome = "ok"
    THEN [status |-> "ok", messages |-> ThreadReplies(c, RepliesCursor(m))]
    ELSE [status |-> outcome, messages |-> <<>>]

\* downloadReplies without the `!channel.id || !message.ts` return
DownloadRepliesUnchecked(c, m, outcome) ==
  IF ReplyCount(m.ts) = 0
    THEN [replies |-> <<>>, response |-> NoResponse, threw |-> FALSE]
  ELSE IF AlreadyComplete(m)
    THEN [replies |-> m.replies, response |-> NoResponse, threw |-> FALSE]
  ELSE LET r == RepliesResponse(c, m, outcome)
       IN  [replies |-> r.messages, response |-> r,
            threw |-> r.status = "error"]

\* What downloadReplies returns for m, and the response it obtained
\* (NoResponse when it returns without a remote call).
DownloadReplies(c, m, outcome) ==
  IF ~HasId(c) \/ m.ts = NoTs
    THEN [replies |-> <<>>, response |-> NoResponse, threw |-> FALSE]
  ELSE IF ReplyCount(m.ts) = 0
    THEN [replies |-> <<>>, response |-> NoResponse, threw |-> FALSE]
  ELSE IF AlreadyComplete(m)
    THEN [replies |-> m.replies, response |-> NoResponse, threw |-> FALSE]
  ELSE LET r == RepliesResponse(c, m, outcome)
       IN  [replies |-> r.messages, response |-> r,
            threw |-> r.status = "error"]

\* ---- downloadExtras -----------------------------------------------------
\* One iteration of `for (const message of messages)`.
DownloadExtrasStep ==
  /\ pc = "extras"
  /\ idx <= Len(result.messages)
  /\ \E outcome \in ReplyOutcomes :
       LET m == result.messages[idx]
           d == IF IsThread(m) THEN DownloadReplies(cur, m, outcome)
                ELSE [replies |-> m.replies, response |-> NoResponse,
                      threw |-> FALSE]
           identifier == Author(m.ts)
           u == IF identifier # NoId /\ identifier \notin users
                  THEN DownloadUser(identifier, users, lookups)
                  ELSE [users |-> users, lookups |-> lookups,
                        calls |-> <<>>, found |-> FALSE]
           rcall == IF d.response.status = "none" THEN <<>>
                    ELSE <<"conversations.replies">>
       IN  /\ response' = d.response
           /\ IF d.threw
                THEN /\ pc' = "aborted"
                     /\ calls' = rcall
                     /\ UNCHANGED <<renderVars, archive, result, idx, users, lookups, resolved>>
                ELSE /\ pc' = "extras"
                     /\ result' = [result EXCEPT
                                     !.messages[idx].replies = d.replies]
                     /\ idx' = idx + 1
                     /\ users' = IF u.found THEN u.users \cup {identifier}
                                 ELSE u.users
                     /\ lookups' = u.lookups
                     /\ resolved' = resolved \cup ({identifier} \ {NoId})
                     /\ calls' = rcall \o u.calls
  /\ UNCHANGED <<channels, locatorVars, renderVars, archive, remoteVars, stored, usersDisk, procs, done, cur, oldest,
                 pages, synced>>

\* downloadExtras(channel, messages, users) called on a channel and a
\* message list of the caller's choosing
ExtrasMessages == {Incoming(NoTs), Incoming(1), Incoming(2)}

ExtrasInputs ==
  {<<m>> : m \in ExtrasMessages}
    \cup {<<m, n>> : m \in ExtrasMessages, n \in ExtrasMessages}

DownloadExtrasCall(c, msgs) ==
  /\ pc = "idle"
  /\ cur' = c
  /\ result' = [messages |-> msgs, new |-> 0]
  /\ idx' = 1
  /\ oldest' = 0
  /\ pages' = <<>>
  /\ calls' = <<>>
  /\ response' = NoResponse
  /\ pc' = "extras"
  /\ UNCHANGED <<channels, locatorVars, renderVars, archive, remoteVars,
                 stored, usersDisk, users, procs, done, lookups, resolved,
                 synced>>

\* ---- the caller's loop over the channels --------------------------------
\* The archive state of a channel after a download: the number of messages
\* written, and fullyDownloaded when the pass found no new message.
ChannelData(res) ==
  [known |-> TRUE, messages |-> Len(res.messages),
   fullyDownloaded |-> res.new = 0]

\* After downloadMessages and downloadExtras the channel's collection and
\* the entity cache are written to disk; a channel without id has no
\* collection and no archive entry to write.
Save ==
  /\ pc = "extras"
  /\ idx > Len(result.messages)
  /\ IF HasId(cur)
       THEN /\ stored' = [stored EXCEPT ![cur] = result.messages]
            /\ synced' = [synced EXCEPT ![cur] = history[cur]]
            /\ archive' = [archive EXCEPT ![cur] = ChannelData(result)]
       ELSE UNCHANGED <<stored, synced, archive>>
  /\ usersDisk' = users
  /\ pc' = "idle"
  /\ cur' = NoChannel
  /\ result' = EmptyResult
  /\ idx' = 1
  /\ oldest' = 0
  /\ calls' = <<>>
  /\ response' = NoResponse
  /\ UNCHANGED <<channels, locatorVars, renderVars, remoteVars, users, procs, done, pages, lookups,
                 resolved>>

\* The process ends (normally, or by the exception) and a later run starts
\* from what is on disk.
ProcessExit ==
  /\ pc \in {"idle", "aborted", "rendered"}
  /\ procs < MaxProcs
  /\ procs' = procs + 1
  /\ pc' = "start"
  /\ users' = usersDisk
  /\ lookups' = [i \in Identifiers |-> 0]
  /\ done' = {}
  /\ cur' = NoChannel
  /\ result' = EmptyResult
  /\ idx' = 1
  /\ oldest' = 0
  /\ pages' = <<>>
  /\ calls' = <<>>
  /\ response' = NoResponse
  /\ resolved' = {}
  /\ channels' = <<>>
  /\ renderUsers' = {}
  /\ html' = [c \in Channels |-> <<>>]
  /\ searchPages' = [c \in Channels |-> <<>>]
  /\ indexPage' = {}
  /\ ri' = 1
  /\ UNCHANGED <<locatorVars, archive, remoteVars, stored, usersDisk, synced>>

\* ---- create-html: the rendered pages ------------------------------------
Reverse(s) == [i \in 1..Len(s) |-> s[Len(s) + 1 - i]]

\* lodash chunk(messages, size): no chunk for an empty collection
LodashChunk(msgs, size) == IF Len(msgs) = 0 THEN <<>> ELSE Chunk(msgs, size)

\* users[identifier]?.profile?.display_name || ...?.real_name || ...?.name
\* of a cached record
NameOf(id) == "name of " \o id

\* Message: the sender shown for a message.  Without a cached record the
\* optional chains give undefined and the sender is rendered empty.
Username(ts, us) ==
  LET identifier == Author(ts)
  IN  IF identifier # NoId
        THEN IF identifier \in us THEN NameOf(identifier) ELSE ""
        ELSE "Unknown"

\* Pagination: null when total is 1, else the links and the jump bar
NoPagination == [shown |-> FALSE, older |-> -1, newer |-> -1, jump |-> <<>>]

Pagination(index, total) ==
  IF total = 1 THEN NoPagination
  ELSE [shown |-> TRUE,
        older |-> IF index + 1 < total THEN index + 1 ELSE -1,
        newer |-> IF index > 0 THEN index - 1 ELSE -1,
        jump  |-> [ji \in 1..total |->
                     [page |-> ji - 1, current |-> (ji - 1 = index)]]]

\* MessagesPage without .reverse()
MessagesPageNoReverse(msgs, index, total, us) ==
  [index |-> index,
   total |-> total,
   messages |-> [i \in 1..Len(msgs) |->
                  [ts |-> msgs[i].ts, sender |-> Username(msgs[i].ts, us)]],
   placeholder |-> Len(msgs) = 0,
   pagination |-> Pagination(index, total)]

\* MessagesPage: the messages of the slice reversed, or the placeholder
MessagesPage(msgs, index, total, us) ==
  [index |-> index,
   total |-> total,
   messages |-> Reverse([i \in 1..Len(msgs) |->
                  [ts |-> msgs[i].ts, sender |-> Username(msgs[i].ts, us)]]),
   placeholder |-> Len(msgs) = 0,
   pagination |-> Pagination(index, total)]

\* recordPage called with the first message of the slice
RecordPageFirst(msgs) == IF Len(msgs) > 0 THEN <<msgs[1].ts>> ELSE <<>>

\* renderMessagesPage: the boundaries recordPage is called with for a slice
RecordPage(msgs) == IF Len(msgs) > 0 THEN <<msgs[Len(msgs)].ts>> ELSE <<>>

RECURSIVE RecordPages(_)
RecordPages(chunks) ==
  IF chunks = <<>> THEN <<>>
  ELSE RecordPage(Head(chunks)) \o RecordPages(Tail(chunks))

\* createHtmlForChannel rendering the full chunks only
RenderedPagesFullOnly(msgs, us) ==
  LET all == LodashChunk(msgs, MESSAGE_CHUNK)
      chunks == SelectSeq(all, LAMBDA ch : Len(ch) = MESSAGE_CHUNK)
  IN  IF Len(chunks) = 0
        THEN << MessagesPage(<<>>, 0, Len(chunks), us) >>
        ELSE [i \in 1..Len(chunks) |->
                MessagesPage(chunks[i], i - 1, Len(chunks), us)]

\* createHtmlForChannel without the page of an empty collection
RenderedPagesNoEmpty(msgs, us) ==
  LET chunks == LodashChunk(msgs, MESSAGE_CHUNK)
  IN  [i \in 1..Len(chunks) |->
         MessagesPage(chunks[i], i - 1, Len(chunks), us)]

\* createHtmlForChannel: the pages rendered for a collection
RenderedPages(msgs, us) ==
  LET chunks == LodashChunk(msgs, MESSAGE_CHUNK)
  IN  IF Len(chunks) = 0
        THEN << MessagesPage(<<>>, 0, Len(chunks), us) >>
        ELSE [i \in 1..Len(chunks) |->
                MessagesPage(chunks[i], i - 1, Len(chunks), us)]

\* ChannelLink: null for a channel whose archive state counts 0 messages
ChannelLink(c) == ~(archive[c].known /\ archive[c].messages = 0)

\* createHtmlForChannels up to its loop: getUsers, getSlackArchiveData
CreateHtmlStart ==
  /\ pc = "idle"
  /\ pc' = "render"
  /\ renderUsers' = usersDisk
  /\ html' = [c \in Channels |-> <<>>]
  /\ searchPages' = [c \in Channels |-> <<>>]
  /\ indexPage' = {}
  /\ ri' = 1
  /\ calls' = <<>>
  /\ response' = NoResponse
  /\ UNCHANGED <<channels, locatorVars, remoteVars, stored, usersDisk, users, procs, done, cur,
                 oldest, pages, result, idx, lookups, resolved, synced,
                 archive>>

\* renderAndWrite with the channel's data file as the path
RenderAndWriteOverData(files, c, rendered) ==
  [files EXCEPT !.html[c] = rendered, !.data[c] = <<>>]

\* renderAndWrite(page, getHTMLFilePath(channel.id, index)) for the pages
\* of c: the files of the html directory are written, the data files are
\* left as they are.
RenderAndWrite(files, c, rendered) == [files EXCEPT !.html[c] = rendered]

\* createHtmlForChannels: the next channel of the list; a channel without
\* id is passed over (`continue`), createHtmlForChannel runs for the others
CreateHtmlForChannel ==
  /\ pc = "render"
  /\ ri <= Len(ChannelList)
  /\ LET c == ChannelList[ri]
         messages == GetMessages(c)
         written == RenderAndWrite([html |-> html, data |-> stored], c,
                                   RenderedPages(messages, renderUsers))
     IN  IF ~HasId(c)
           THEN UNCHANGED <<html, searchPages, stored>>
           ELSE /\ html' = written.html
                /\ stored' = written.data
                /\ searchPages' = [searchPages EXCEPT ![c] =
                     @ \o RecordPages(LodashChunk(messages, MESSAGE_CHUNK))]
  /\ ri' = ri + 1
  /\ UNCHANGED <<channels, locatorVars, remoteVars, usersDisk, users, pc, procs, done, cur,
                 oldest, pages, result, idx, lookups, calls, response,
                 resolved, synced, archive, renderUsers, indexPage>>

\* renderIndexPage: the channels the index page links
RenderIndexPage ==
  /\ pc = "render"
  /\ ri > Len(ChannelList)
  /\ indexPage' = {c \in Channels : ChannelLink(c)}
  /\ pc' = "rendered"
  /\ UNCHANGED <<channels, locatorVars, remoteVars, stored, usersDisk, users, procs, done, cur,
                 oldest, pages, result, idx, lookups, calls, response,
                 resolved, synced, archive, renderUsers, html, searchPages,
                 ri>>

\* ---- the page locator ----------------------------------------------------
NoPage == -1
NotLocated == -2

\* the rule with < for <=
LocatePageStrict(bs, t) ==
  LET hits == {i \in 1..Len(bs) : bs[i] < t}
  IN  IF hits = {} THEN NoPage
      ELSE (CHOOSE i \in hits : \A j \in hits : i <= j) - 1

\* the first page whose recorded boundary is less than or equal to the
\* target
LocatePage(bs, t) ==
  LET hits == {i \in 1..Len(bs) : bs[i] <= t}
  IN  IF hits = {} THEN NoPage
      ELSE (CHOOSE i \in hits : \A j \in hits : i <= j) - 1

\* a lookup of `target` in `boundaries`
Locate ==
  /\ located = NotLocated
  /\ boundaries # <<>>
  /\ located' = LocatePage(boundaries, target)
  /\ UNCHANGED <<remoteVars, stored, usersDisk, users, pc, procs, done, cur,
                 oldest, pages, result, idx, lookups, calls, response,
                 resolved, synced, archive, renderVars, boundaries, target,
                 channels>>

\* the boundaries of three pages, strictly decreasing by page index
Boundaries ==
  {bs \in [1..3 -> 1..MaxBoundary] : bs[1] > bs[2] /\ bs[2] > bs[3]}

InitProgram ==
  /\ history = [c \in Channels |-> {}]
  /\ thread = 0
  /\ remoteUsers \in SUBSET Identifiers
  /\ stored = [c \in Channels |-> <<>>]
  /\ usersDisk = {}
  /\ users = {}
  /\ pc = "start"
  /\ procs = 1
  /\ done = {}
  /\ cur = NoChannel
  /\ oldest = 0
  /\ pages = <<>>
  /\ result = EmptyResult
  /\ idx = 1
  /\ lookups = [i \in Identifiers |-> 0]
  /\ calls = <<>>
  /\ response = NoResponse
  /\ resolved = {}
  /\ synced = [c \in Channels |-> NeverSynced]
  /\ archive = [c \in Channels |-> NoData]
  /\ renderUsers = {}
  /\ html = [c \in Channels |-> <<>>]
  /\ searchPages = [c \in Channels |-> <<>>]
  /\ indexPage = {}
  /\ ri = 1
  /\ channels = <<>>

Init ==
  /\ InitProgram
  /\ boundaries = <<>>
  /\ target = 0
  /\ located = NotLocated

LocatorInit ==
  /\ InitProgram
  /\ boundaries \in Boundaries
  /\ target \in 0..(MaxBoundary + 1)
  /\ located = NotLocated

Next ==
  \/ \E c \in Channels : RemotePost(c)
  \/ \E c \in Channels : RemoteReply(c)
  \/ \E id \in Identifiers : RemoteUserAppears(id)
  \/ DownloadChannels
  \/ \E c \in Channels : DownloadMessagesStart(c)
  \/ FetchPage
  \/ FetchPageFail
  \/ DownloadExtrasStep
  \/ Save
  \/ ProcessExit
  \/ CreateHtmlStart
  \/ CreateHtmlForChannel
  \/ RenderIndexPage

Spec == Init /\ [][Next]_vars

\* Each operation called once on channels and messages of any kind, those
\* without identifier included.
MissingIdNext ==
  \/ DownloadChannels
  \/ \E c \in AllChannels : DownloadMessagesStart(c)
  \/ FetchPage
  \/ \E c \in AllChannels : \E msgs \in ExtrasInputs :
       DownloadExtrasCall(c, msgs)
  \/ DownloadExtrasStep
  \/ CreateHtmlStart
  \/ CreateHtmlForChannel
  \/ RenderIndexPage

MissingIdSpec == Init /\ [][MissingIdNext]_vars

LocatorNext == Locate

LocatorSpec == LocatorInit /\ [][LocatorNext]_vars

\* ==== properties ==========================================================
StrictlyDecreasing(s) == \A i \in 1..(Len(s) - 1) : s[i] > s[i + 1]
NoDuplicates(s) == \A i, j \in 1..Len(s) : i # j => s[i] # s[j]
Range(s) == {s[i] : i \in 1..Len(s)}
Least(a, b) == IF a <= b THEN a ELSE b

\* downloadMessages has just returned `result`
Returned == pc = "extras" /\ idx = 1

\* the next step of downloadExtras handles a thread parent
AtThread ==
  /\ pc = "extras"
  /\ idx <= Len(result.messages)
  /\ IsThread(result.messages[idx])

\* the replies the message at idx holds before / after the step
RepliesBefore == result.messages[idx].replies
RepliesAfter == result'.messages[idx].replies

\* C1: after any number of successive downloadMessages runs no two messages
\* of the collection downloadMessages returns share a timestamp.
C1_NoDuplicateTimestamps ==
  pc = "extras" => NoDuplicates(TsOf(result.messages))

\* C2: a downloadMessages run on a channel whose non-empty remote history is
\* the one its previous saved run saw returns new = 0 and the collection the
\* previous run produced.
C2_SecondRunIdempotent ==
  (Returned /\ history[cur] # {} /\ synced[cur] = history[cur])
    => (result.new = 0 /\ result.messages = stored[cur])

\* C3: the collection downloadMessages returns is strictly newest-first and
\* holds exactly the persisted messages and the remote history.
C3_StrictlyNewestFirst ==
  Returned =>
    /\ StrictlyDecreasing(TsOf(result.messages))
    /\ Range(TsOf(result.messages))
         = Range(TsOf(stored[cur])) \cup history[cur]

\* C4 (as stated): the history request carries the timestamp of the oldest
\* stored message as its cursor, and 0 when nothing is stored.
C4_CursorIsOldestStored ==
  pc = "history" =>
    IF stored[cur] = <<>> THEN oldest = 0
    ELSE oldest * TsUnit = Min(Range(TsOf(stored[cur])))

\* C4 (amended): the history request carries the whole seconds of the
\* timestamp of the first message of the persisted collection as its
\* cursor, and 0 when nothing is stored.
C4_CursorIsSecondsOfFirst ==
  pc = "history" =>
    IF stored[cur] = <<>> THEN oldest = 0
    ELSE /\ oldest * TsUnit <= stored[cur][1].ts
         /\ stored[cur][1].ts < (oldest + 1) * TsUnit

C4_Witness ==
  /\ pc = "history"
  /\ Len(stored[cur]) >= 2
  /\ stored[cur][1].ts % TsUnit # 0
  /\ stored[cur][1].ts # Min(Range(TsOf(stored[cur])))

\* C5: a failed page fetch aborts the channel's download, returns nothing of
\* what was merged, and leaves the persisted collections as they were; the
\* aborted run persists nothing afterwards.
C5_FailureDiscardsProgress ==
  [][ /\ (pc = "history" /\ response'.status = "error")
           => (pc' = "aborted" /\ result' = EmptyResult /\ stored' = stored)
      /\ pc = "aborted" => stored' = stored ]_vars

C5_Witness ==
  /\ pc = "aborted"
  /\ calls = <<"conversations.history">>
  /\ stored[cur] # <<>>
  /\ 0 < Len(pages)
  /\ Len(pages) < Len(HistoryPages(cur, oldest))

\* C6: a thread parent holding k < reply_count replies holds, after its
\* replies were fetched, the k stored replies followed by the fetched ones.
C6_RepliesAppended ==
  [][ (AtThread /\ Len(RepliesBefore) < ReplyCount(result.messages[idx].ts)
         /\ response'.status = "ok")
        => RepliesAfter = RepliesBefore \o response'.messages ]_vars

\* C7: after a successful thread synchronization a thread parent with
\* reply_count = N holds at least min(N, replies the remote holds) replies.
C7_ThreadComplete ==
  [][ (AtThread /\ response'.status \in {"ok", "none"})
        => Len(RepliesAfter)
             >= Least(ReplyCount(result.messages[idx].ts), thread) ]_vars

\* C8: for a thread parent holding at least reply_count replies
\* downloadReplies issues no remote call and the replies stay as they were.
C8_CompleteThreadSkipped ==
  [][ (AtThread /\ Len(RepliesBefore) >= ReplyCount(result.messages[idx].ts))
        => /\ response' = NoResponse
           /\ \A i \in 1..Len(calls') : calls'[i] # "conversations.replies"
           /\ pc' = "extras"
           /\ RepliesAfter = RepliesBefore ]_vars

C8_Witness ==
  /\ pc = "extras"
  /\ idx - 1 > result.new
  /\ IsThread(result.messages[idx - 1])
  /\ Len(result.messages[idx - 1].replies)
       >= ReplyCount(result.messages[idx - 1].ts)
  /\ result.messages[idx - 1] = stored[cur][idx - 1 - result.new]
  /\ response = NoResponse

\* C9: when the thread fetch returns no replies or fails, the message keeps
\* its stored replies and downloadExtras goes on to the next message.
C9_EmptyFetchTolerated ==
  [][ (AtThread /\ (\/ response'.status \in {"nomessages", "error"}
                    \/ (response'.status = "ok" /\ response'.messages = <<>>)))
        => /\ pc' = "extras"
           /\ idx' = idx + 1
           /\ RepliesAfter = RepliesBefore ]_vars

\* C10 (as stated): every identifier resolved in a run, resolvable or not,
\* has had exactly one remote lookup in that run.
C10_ExactlyOneLookup == \A id \in resolved : lookups[id] = 1

\* C10 (amended): an identifier the remote resolves when it is looked up is
\* in the cache after that lookup, and an identifier in the cache is not
\* looked up again in the run: at most one lookup for it, none when the
\* run started with it in the cache.
C10_AtMostOneLookupIfResolvable ==
  [][\A id \in Identifiers :
       /\ lookups'[id] > lookups[id]
            => /\ id \notin users
               /\ lookups'[id] = lookups[id] + 1
               /\ id \in remoteUsers => id \in users'
       /\ (id \in users /\ procs' = procs)
            => (id \in users' /\ lookups'[id] = lookups[id])
    ]_vars

C10_Witness ==
  /\ pc = "extras"
  /\ idx > 1
  /\ Author(result.messages[idx - 1].ts) \in remoteUsers \cap ImUsers
  /\ lookups[Author(result.messages[idx - 1].ts)] = 1
  /\ calls = <<>>

\* the next step of downloadExtras resolves the author of its message
\* through downloadUser (the author has no entry in the cache)
AtUncached ==
  /\ pc = "extras"
  /\ idx <= Len(result.messages)
  /\ pc' = "extras"
  /\ Author(result.messages[idx].ts) \in Identifiers \ users

\* C11: a lookup of an identifier the remote has no record for adds no cache
\* entry; the next resolution of the identifier issues a new lookup, which
\* caches the record if the remote has one by then.
C11_NullNotCached ==
  [][ /\ \A id \in Identifiers \ remoteUsers : id \notin users => id \notin users'
      /\ AtUncached =>
           LET id == Author(result.messages[idx].ts)
           IN  /\ lookups'[id] = lookups[id] + 1
               /\ id \in users' <=> id \in remoteUsers ]_vars

C11_Witness ==
  \E id \in Identifiers :
    /\ lookups[id] >= 2
    /\ id \in users
    /\ pc = "extras"
    /\ idx > 1
    /\ Author(result.messages[idx - 1].ts) = id
    /\ calls # <<>>

\* ---- rendering ----------------------------------------------------------
\* createHtmlForChannel has run for channel c in this render run
Rendered(c) ==
  /\ pc \in {"render", "rendered"}
  /\ \E i \in 1..(ri - 1) : ChannelList[i] = c

\* the newest-first slice of the collection that page index i - 1 holds
Slice(msgs, i) ==
  SubSeq(msgs, (i - 1) * MESSAGE_CHUNK + 1,
         Least(i * MESSAGE_CHUNK, Len(msgs)))

RECURSIVE Concat(_)
Concat(ss) == IF ss = <<>> THEN <<>> ELSE Head(ss) \o Concat(Tail(ss))

\* C12: a message whose author has no record in the entity cache is rendered
\* with the bare identifier as its sender.
C12_BareIdentifierShown ==
  \A c \in Channels : Rendered(c) =>
    \A i \in 1..Len(html[c]) : \A j \in 1..Len(html[c][i].messages) :
      LET m == html[c][i].messages[j]
      IN  Author(m.ts) \in Identifiers \ renderUsers
            => m.sender = Author(m.ts)

\* C13: a channel with n > 0 messages is rendered as ceil(n / P) pages with
\* indices 0..total-1, every page but the last holding P messages and the
\* last the remainder, and the pages in index order hold the collection.
C13_Partition ==
  \A c \in Channels : (Rendered(c) /\ Len(stored[c]) > 0) =>
    LET n == Len(stored[c])
        total == (n + MESSAGE_CHUNK - 1) \div MESSAGE_CHUNK
    IN  /\ Len(html[c]) = total
        /\ \A i \in 1..Len(html[c]) :
             /\ html[c][i].index = i - 1
             /\ html[c][i].total = total
             /\ Len(html[c][i].messages) =
                  IF i < total THEN MESSAGE_CHUNK
                  ELSE n - MESSAGE_CHUNK * (total - 1)
        /\ Concat([i \in 1..Len(html[c]) |->
                     Reverse(TsOf(html[c][i].messages))]) = TsOf(stored[c])

C13_Witness ==
  /\ Rendered("C1")
  /\ Len(stored["C1"]) = 2 * MESSAGE_CHUNK + 1
  /\ Len(html["C1"]) = 3
  /\ Len(html["C1"][3].messages) = 1

\* C14: every rendered page has an older link to index + 1 exactly when it
\* is not the oldest page and a newer link to index - 1 exactly when it is
\* not the newest; its jump bar lists every index 0..total-1 once with
\* exactly its own index current, and is omitted when total is 1.
C14_Navigation ==
  \A c \in Channels : Rendered(c) =>
    \A i \in 1..Len(html[c]) :
      LET p == html[c][i]
          nav == p.pagination
      IN  IF p.total = 1 THEN ~nav.shown
          ELSE /\ nav.shown
               /\ nav.older = (IF i < Len(html[c]) THEN p.index + 1 ELSE -1)
               /\ nav.newer = (IF i > 1 THEN p.index - 1 ELSE -1)
               /\ Len(nav.jump) = p.total
               /\ \A k \in 1..Len(nav.jump) : nav.jump[k].page = k - 1
               /\ {nav.jump[k].page : k \in
                     {x \in 1..Len(nav.jump) : nav.jump[x].current}}
                    = {p.index}

\* C15: a channel without persisted messages is rendered as exactly one
\* page, index 0, holding the placeholder; a channel whose archive state
\* counts 0 messages is not linked on the index page.
C15_EmptyChannel ==
  /\ \A c \in Channels : (Rendered(c) /\ stored[c] = <<>>) =>
       /\ Len(html[c]) = 1
       /\ html[c][1].index = 0
       /\ html[c][1].placeholder
       /\ html[c][1].messages = <<>>
  /\ pc = "rendered" =>
       \A c \in Channels :
         (archive[c].known /\ archive[c].messages = 0) => c \notin indexPage

C15_Witness ==
  /\ pc = "rendered"
  /\ \E c \in Channels :
       /\ stored[c] = <<>>
       /\ archive[c].known
       /\ Len(html[c]) = 1
       /\ c \notin indexPage
  /\ indexPage # {}

\* C16: a page shows its messages oldest-first, the reverse of its
\* newest-first slice, and page index i holds the i-th slice of the
\* collection.
C16_ReversedWithinPage ==
  \A c \in Channels : (Rendered(c) /\ Len(stored[c]) > 0) =>
    \A i \in 1..Len(html[c]) :
      TsOf(html[c][i].messages) = Reverse(TsOf(Slice(stored[c], i)))

C16_Witness ==
  /\ Rendered("C1")
  /\ Len(html["C1"]) >= 2
  /\ Len(html["C1"][1].messages) = 2
  /\ html["C1"][1].messages[1].ts < html["C1"][1].messages[2].ts
  /\ stored["C1"][1].ts = html["C1"][1].messages[2].ts

\* C17 (as stated): recordPage is called once for every rendered page, the
\* page of an empty channel included, in index order, with the timestamp of
\* the last message of the page's slice.
C17_OneRecordPerPage ==
  \A c \in Channels : Rendered(c) =>
    /\ Len(searchPages[c]) = Len(html[c])
    /\ \A i \in 1..Len(searchPages[c]) :
         LET sl == Slice(stored[c], i)
         IN  Len(sl) > 0 /\ searchPages[c][i] = sl[Len(sl)].ts

\* C17 (amended): recordPage is called once for every rendered page that
\* holds a message, in index order, with the timestamp of the last message
\* of the page's slice; the placeholder page of an empty channel records
\* nothing.
C17_OneRecordPerNonEmptyPage ==
  \A c \in Channels : Rendered(c) =>
    /\ Len(searchPages[c]) =
         Cardinality({i \in 1..Len(html[c]) : ~html[c][i].placeholder})
    /\ \A i \in 1..Len(searchPages[c]) :
         LET sl == Slice(stored[c], i)
         IN  Len(sl) > 0 /\ searchPages[c][i] = sl[Len(sl)].ts

C17_Witness ==
  /\ pc = "rendered"
  /\ Len(searchPages["C1"]) >= 2
  /\ Len(html["C1"]) = Len(searchPages["C1"])
  /\ searchPages["C1"][1] # stored["C1"][1].ts
  /\ \E c \in Channels : Len(html[c]) = 1 /\ searchPages[c] = <<>>

\* C18: after any downloads and a render run the boundaries recorded for a
\* channel are strictly decreasing by page index.
C18_BoundariesDecreasing ==
  \A c \in Channels : Rendered(c) => StrictlyDecreasing(searchPages[c])

\* C19 (as stated): with boundaries [T3, T2, T1], T3 > T2 > T1, the locator
\* resolves every target in (T2, T3] to page 0.
C19_IntervalToPageZero ==
  (located # NotLocated /\ boundaries \in Boundaries
     /\ boundaries[2] < target /\ target <= boundaries[1])
    => located = 0

\* C19 (amended): with boundaries [T3, T2, T1], T3 > T2 > T1, the locator
\* resolves every target at or above T3 to page 0 and every target in
\* [T2, T3) to page 1.
C19_BoundaryToPage ==
  (located # NotLocated /\ boundaries \in Boundaries) =>
    /\ target >= boundaries[1] => located = 0
    /\ (boundaries[2] <= target /\ target < boundaries[1]) => located = 1

C19_Witness ==
  /\ boundaries \in Boundaries
  /\ boundaries[2] < target
  /\ target < boundaries[1]
  /\ located = 1

\* C20: once a channel's fullyDownloaded flag is true, a sync pass of the
\* channel against the remote history the flag was set for reports zero new
\* messages, and no step sets the flag to false while that history stands.
C20_CompleteStaysComplete ==
  [][\A c \in Channels :
       (archive[c].fullyDownloaded /\ synced[c] = history[c]
          /\ history'[c] = history[c])
         => /\ archive'[c].fullyDownloaded
            /\ (pc' = "extras" /\ idx' = 1 /\ cur' = c) => result'.new = 0
    ]_vars

C20_Witness ==
  /\ Returned
  /\ archive[cur].fullyDownloaded
  /\ history[cur] # {}
  /\ synced[cur] = history[cur]
  /\ result.new = 0
  /\ Len(result.messages) > 0

\* C21: a channel or message without identifier is skipped without a remote
\* call and without failing the run: downloadChannels returns the channels
\* with id, downloadMessages answers a channel without id with the empty
\* result, downloadReplies returns no replies for a channel without id or a
\* message without timestamp, and createHtmlForChannels passes over a
\* channel without id and renders the others.
C21_MissingIdentifierSkipped ==
  [][/\ (pc = "start" /\ pc' = "idle")
          => /\ \A i \in 1..Len(channels') : HasId(channels'[i])
             /\ Range(channels') = Range(ChannelList) \cap Channels
     /\ (pc = "idle" /\ done' # done /\ ~HasId(cur'))
          => /\ pc' = "extras"
             /\ idx' = 1
             /\ result' = EmptyResult
             /\ calls' = <<>>
             /\ pages' = <<>>
     /\ (AtThread /\ (~HasId(cur) \/ result.messages[idx].ts = NoTs))
          => /\ pc' = "extras"
             /\ idx' = idx + 1
             /\ RepliesAfter = <<>>
             /\ response' = NoResponse
             /\ "conversations.replies" \notin Range(calls')
     /\ (pc = "render" /\ ri <= Len(ChannelList) /\ ~HasId(ChannelList[ri]))
          => /\ pc' = "render"
             /\ ri' = ri + 1
             /\ html' = html
             /\ searchPages' = searchPages
     /\ pc' = "rendered"
          => \A c \in Channels : \E i \in 1..(ri' - 1) : ChannelList[i] = c
    ]_vars

C21_Witness ==
  /\ pc = "extras"
  /\ ~HasId(cur)
  /\ idx = 2
  /\ result.messages[1].ts = 1
  /\ result.messages[1].replies = <<>>
  /\ calls = <<>>
  /\ channels = <<"C1", "D1">>

\* a step of a render run (createHtmlForChannels)
RenderStep == (pc = "idle" /\ pc' = "render") \/ pc = "render"

IsPrefix(s, t) == Len(s) <= Len(t) /\ SubSeq(t, 1, Len(s)) = s

\* C22: a render run leaves the persisted message collections (the order of
\* the messages and their replies included), the entity cache and the
\* archive state as they are; while it renders the channels it only
\* extends the boundaries of the page locator index.
C22_RenderReadOnly ==
  [][RenderStep =>
       /\ stored' = stored
       /\ usersDisk' = usersDisk
       /\ archive' = archive
       /\ pc = "render" =>
            \A c \in Channels : IsPrefix(searchPages[c], searchPages'[c])
    ]_vars

C22_Witness ==
  /\ pc = "rendered"
  /\ Len(stored["C1"]) >= 2
  /\ \E i \in 1..Len(stored["C1"]) : stored["C1"][i].replies # <<>>
  /\ Len(html["C1"]) >= 1
  /\ searchPages["C1"] # <<>>
  /\ archive["C1"].known
  /\ usersDisk # {}

\* C23: every page createHtmlForChannel renders, for a channel of any size,
\* the empty one included, has 0 <= index < total, and total is the number
\* of pages rendered for the channel.
C23_IndexWithinTotal ==
  \A c \in Channels : Rendered(c) =>
    \A i \in 1..Len(html[c]) :
      /\ 0 <= html[c][i].index
      /\ html[c][i].index < html[c][i].total
      /\ html[c][i].total = Len(html[c])

\* downloadExtras has handled every message of the channel
ExtrasCompleted == pc = "extras" /\ idx > Len(result.messages)

\* the author identifiers on the top-level messages / on the stored replies
TopLevelAuthors ==
  {Author(result.messages[i].ts) : i \in 1..Len(result.messages)} \ {NoId}

StoredReplyAuthors ==
  UNION {{ReplyAuthor(result.messages[i].replies[j]) :
            j \in 1..Len(result.messages[i].replies)} :
           i \in 1..Len(result.messages)}

\* C24: after downloadExtras has completed for a channel every author
\* identifier on a top-level message or on a stored reply that the remote
\* resolves has an entry in the entity cache.
C24_AuthorsCached ==
  ExtrasCompleted =>
    (TopLevelAuthors \cup StoredReplyAuthors) \cap remoteUsers \subseteq users

\* the part of C24 about the top-level messages, which the code keeps
C24_TopLevelOnly ==
  ExtrasCompleted => TopLevelAuthors \cap remoteUsers \subseteq users
====
